---------------------------- MODULE Spec2Model ----------------------------
(***************************************************************************)
(* TeleScan2Coe (src/converter.py): XMLFileReader.read, the COE body       *)
(* generator of TeleScanConverter, COEFileWriter.write and the             *)
(* orchestration in TeleScanConverter.convert.                             *)
(*                                                                         *)
(* Text is modelled by TLA+ strings: Len, \o and SubSeq are the length,    *)
(* concatenation and (1-based, inclusive) substring of a string.           *)
(***************************************************************************)
EXTENDS Integers, Sequences, FiniteSets, TLC

VARIABLES
    pc,            \* position of the running call
    src,           \* the source document given to convert (index in SourceDocs)
    dest,          \* the destination file: [exists, content]
    dest0,         \* the destination file as it was before the call
    hex_data,      \* convert / _chunk_generator: hex_data
    header,        \* _generate_coe_content: header
    total_chunks,  \* _chunk_generator: total_chunks
    idx,           \* _chunk_generator: idx
    buffer,        \* _chunk_generator: buffer (list of strings)
    body,          \* _generate_coe_content: body
    coe_content,   \* convert: coe_content
    error,         \* the exception that left the call, or NoError
    calls,         \* the stages invoked so far, in order
    written,       \* what writer.write received, <<>> until it is called
    printed        \* main: the success message was printed

vars == <<pc, src, dest, dest0, hex_data, header, total_chunks, idx, buffer,
          body, coe_content, error, calls, written, printed>>

---------------------------------------------------------------------------
(* Bounds of the model *)

\* payload patterns 0..NumPatterns are read from source documents
NumPatterns == 1

\* _create_body is called directly on payloads of length 0..MaxGenLen
MaxGenLen == 70

---------------------------------------------------------------------------
(* Program constants *)

PayloadLen == 8192
ChunkLen == 32
SectionChunks == 16
SectionStride == 256
GroupLen == 8
GroupsPerChunk == 4
AddrWidth == 4

---------------------------------------------------------------------------
(* Strings *)

Min(a, b) == IF a < b THEN a ELSE b

\* the i-th character of s, 1-based
CharAt(s, i) == SubSeq(s, i, i)

\* Python's s[a:b] for 0 <= a, 0 <= b: clamped to the string, empty when a >= b
Slice(s, a, b) ==
    LET lo == Min(a, Len(s))
        hi == Min(b, Len(s))
    IN  IF lo >= hi THEN "" ELSE SubSeq(s, lo + 1, hi)

RECURSIVE Repeat(_, _)
Repeat(s, n) ==
    IF n <= 0 THEN ""
    ELSE IF n = 1 THEN s
    ELSE LET h == Repeat(s, n \div 2)
         IN  h \o h \o (IF n % 2 = 1 THEN s ELSE "")

\* str.join with the empty separator over list[lo..hi]
RECURSIVE JoinRange(_, _, _)
JoinRange(list, lo, hi) ==
    IF lo > hi THEN ""
    ELSE IF lo = hi THEN list[lo]
    ELSE LET mid == (lo + hi) \div 2
         IN  JoinRange(list, lo, mid) \o JoinRange(list, mid + 1, hi)

Join(list) == JoinRange(list, 1, Len(list))

\* sep.join(list)
RECURSIVE JoinWith(_, _)
JoinWith(sep, list) ==
    IF Len(list) = 0 THEN ""
    ELSE IF Len(list) = 1 THEN list[1]
    ELSE list[1] \o sep \o JoinWith(sep, Tail(list))

Whitespace == {" ", "\t", "\n", "\r"}

RECURSIVE LStrip(_)
LStrip(s) ==
    IF Len(s) > 0 /\ CharAt(s, 1) \in Whitespace
    THEN LStrip(SubSeq(s, 2, Len(s)))
    ELSE s

RECURSIVE RStrip(_)
RStrip(s) ==
    IF Len(s) > 0 /\ CharAt(s, Len(s)) \in Whitespace
    THEN RStrip(SubSeq(s, 1, Len(s) - 1))
    ELSE s

\* str.strip(): leading and trailing whitespace only
Strip(s) == RStrip(LStrip(s))

HexDigits == {"0", "1", "2", "3", "4", "5", "6", "7", "8", "9",
              "a", "b", "c", "d", "e", "f",
              "A", "B", "C", "D", "E", "F"}

\* re.fullmatch(r'[0-9a-fA-F]+', data) is not None
FullMatchHex(data) ==
    /\ Len(data) >= 1
    /\ \A i \in 1..Len(data) : CharAt(data, i) \in HexDigits

UpperHex == "0123456789ABCDEF"

RECURSIVE ToUpperHex(_)
ToUpperHex(n) ==
    IF n < 16 THEN CharAt(UpperHex, n + 1)
    ELSE ToUpperHex(n \div 16) \o CharAt(UpperHex, (n % 16) + 1)

\* format(n, "04X"): uppercase hexadecimal, zero-padded to 4 digits at least
Format04X(n) ==
    LET d == ToUpperHex(n)
    IN  Repeat("0", AddrWidth - Len(d)) \o d

---------------------------------------------------------------------------
(* Exceptions and results *)

NoError == [type |-> "None", msg |-> "", filename |-> ""]

Raise(type, msg) == [type |-> type, msg |-> msg, filename |-> ""]

RaiseOn(type, msg, path) == [type |-> type, msg |-> msg, filename |-> path]

\* the value of a name that is not bound (yet)
None == "<None>"

---------------------------------------------------------------------------
(* The files of one conversion *)

src_name == "dump.tlscan"
dst_path == "/out/output.coe"

Alphabet == "0123456789abcdefABCDEF"

\* the character at 0-based offset i of payload pattern p
PatternChar(p, i) ==
    CharAt(Alphabet,
           (((i + (i \div ChunkLen) + (i \div 512)) * (p + 1)) % Len(Alphabet)) + 1)

RECURSIVE PatternRange(_, _, _)
PatternRange(p, lo, hi) ==
    IF lo > hi THEN ""
    ELSE IF lo = hi THEN PatternChar(p, lo)
    ELSE LET mid == (lo + hi) \div 2
         IN  PatternRange(p, lo, mid) \o PatternRange(p, mid + 1, hi)

\* n hex digits of pattern p
Pattern(p, n) == PatternRange(p, 0, n - 1)

TextDoc(t) == [kind |-> "xml", bytes_element |-> TRUE, text |-> t]

\* the <bytes> texts built on one payload pattern
PatternTexts(p) ==
    LET P == Pattern(p, PayloadLen)
        half == PayloadLen \div 2
    IN  << P,
           "\n  " \o P \o "\n\t ",
           Slice(P, 0, half) \o "\n" \o Slice(P, half, PayloadLen),
           Slice(P, 0, PayloadLen - 1),
           P \o "0",
           Slice(P, 0, 100) \o "g" \o Slice(P, 101, PayloadLen),
           Slice(P, 0, 100) \o "g" \o Slice(P, 101, PayloadLen - 1),
           Slice(P, 0, half) \o " " \o Slice(P, half, PayloadLen - 1),
           " " \o Slice(P, 0, PayloadLen - 1) >>

RECURSIVE PatternDocs(_)
PatternDocs(p) ==
    IF p < 0 THEN <<>>
    ELSE [k \in 1..Len(PatternTexts(p)) |-> TextDoc(PatternTexts(p)[k])]
             \o PatternDocs(p - 1)

\* the source documents a conversion is run on
SourceDocs ==
    << [kind |-> "no_file", bytes_element |-> FALSE, text |-> None],
       [kind |-> "malformed", bytes_element |-> FALSE, text |-> None],
       [kind |-> "xml", bytes_element |-> FALSE, text |-> None],
       [kind |-> "xml", bytes_element |-> TRUE, text |-> None],
       TextDoc(" \n\t "),
       TextDoc("00") >>
    \o PatternDocs(NumPatterns)

\* the destination before the conversion: absent, or holding an earlier document
NoFile == [exists |-> FALSE, content |-> ""]
OldFile == [exists |-> TRUE, content |-> "; old\nmemory_initialization_radix=16;\n"]

\* the wall clock at the time the header is made
Timestamps == {"2024-01-01 00:00:00", "2024-12-31 23:59:59"}

---------------------------------------------------------------------------
(* XMLFileReader *)

ExpectedLenText == "8192"

\* _validate_hex with its two checks in the other order
ValidateHexCharsFirst(data) ==
    IF ~FullMatchHex(data)
    THEN Raise("ValueError", "Hex data contains invalid characters")
    ELSE IF Len(data) # PayloadLen
    THEN Raise("ValueError",
               "Invalid hex length: Expected " \o ExpectedLenText
                   \o " characters, got " \o ToString(Len(data)))
    ELSE NoError

\* XMLFileReader._validate_hex: the exception it raises, or NoError
ValidateHex(data) ==
    IF Len(data) # PayloadLen
    THEN Raise("ValueError",
               "Invalid hex length: Expected " \o ExpectedLenText
                   \o " characters, got " \o ToString(Len(data)))
    ELSE IF ~FullMatchHex(data)
    THEN Raise("ValueError", "Hex data contains invalid characters")
    ELSE NoError

MissingBytes == Raise("ValueError", "Invalid XML format: Missing <bytes> element")

\* read that tests the element for None and not its text
ReaderReadElementOnly(doc) ==
    IF doc.kind = "no_file"
    THEN [value |-> None,
          error |-> RaiseOn("FileNotFoundError", "No such file or directory", src_name)]
    ELSE IF doc.kind = "malformed"
    THEN [value |-> None, error |-> Raise("ParseError", "not well-formed")]
    ELSE IF ~doc.bytes_element
    THEN [value |-> None, error |-> MissingBytes]
    ELSE IF doc.text = None
    THEN [value |-> None,
          error |-> Raise("AttributeError", "'NoneType' object has no attribute 'strip'")]
    ELSE LET stripped == Strip(doc.text)
             e == ValidateHex(stripped)
         IN  IF e # NoError
             THEN [value |-> None, error |-> e]
             ELSE [value |-> stripped, error |-> NoError]

\* XMLFileReader.read: [value, error]
ReaderRead(doc) ==
    IF doc.kind = "no_file"
    THEN [value |-> None,
          error |-> RaiseOn("FileNotFoundError", "No such file or directory", src_name)]
    ELSE IF doc.kind = "malformed"
    THEN [value |-> None, error |-> Raise("ParseError", "not well-formed")]
    ELSE IF ~doc.bytes_element \/ doc.text = None
    THEN [value |-> None, error |-> MissingBytes]
    ELSE LET stripped == Strip(doc.text)
             e == ValidateHex(stripped)
         IN  IF e # NoError
             THEN [value |-> None, error |-> e]
             ELSE [value |-> stripped, error |-> NoError]

---------------------------------------------------------------------------
(* TeleScanConverter: the generator *)

\* _create_header
CreateHeader(name, timestamp) ==
    "; TeleScan to COE Conversion\n"
    \o "; Source: " \o name \o "\n"
    \o "; Generated: " \o timestamp \o "\n\n"
    \o "memory_initialization_radix=16;\n"
    \o "memory_initialization_vector=\n"

\* total_chunks one short
TotalChunksShort(data) == (Len(data) - 1) \div ChunkLen


\* _chunk_generator: total_chunks
TotalChunks(data) == Len(data) \div ChunkLen

\* _chunk_generator: whether an address comment precedes chunk i
StartsSection(i) == i % SectionChunks = 0

\* the address comment with the section index scaled by 16 instead of 256
AddressCommentBySection(i) ==
    "\n; " \o Format04X((i \div SectionChunks) * SectionChunks) \o "\n"

\* _chunk_generator: the address comment before chunk i
AddressComment(i) ==
    "\n; " \o Format04X((i \div SectionChunks) * SectionStride) \o "\n"

\* the chunk taken one character late
ChunkAtShifted(data, i) == Slice(data, i * ChunkLen + 1, i * ChunkLen + ChunkLen + 1)

\* _chunk_generator: chunk i of the payload
ChunkAt(data, i) == Slice(data, i * ChunkLen, i * ChunkLen + ChunkLen)

\* is_last compared with the count instead of the last index
IsLastOffByOne(i, total) == i = total

\* _chunk_generator: is_last
IsLast(i, total) == i = total - 1

\* _format_chunk: parts
Parts(chunk) ==
    [k \in 1..GroupsPerChunk |-> Slice(chunk, (k - 1) * GroupLen, k * GroupLen)]

\* _format_chunk: terminator
Terminator(is_last) == IF is_last THEN ";" ELSE ","

\* _format_chunk
FormatChunk(chunk, is_last) ==
    JoinWith(",", Parts(chunk)) \o Terminator(is_last) \o "\n"

\* what one iteration of _chunk_generator's loop appends to buffer
LoopAppends(data, i, total) ==
    (IF StartsSection(i) THEN <<AddressComment(i)>> ELSE <<>>)
    \o <<FormatChunk(ChunkAt(data, i), IsLast(i, total))>>

---------------------------------------------------------------------------
(* COEFileWriter: Path.write_text opens the file for writing, which creates *)
(* or truncates it, then writes the text and closes the file.              *)

OpenError ==
    RaiseOn("OSError", "No such file or directory, or permission denied", dst_path)

WriteError == Raise("OSError", "No space left on device")

\* the file once open(path, "w") has succeeded
Opened(file) == [exists |-> TRUE, content |-> ""]

\* the lengths at which a failing write may stop
PartialLens(content) == {0, Len(content) \div 2}

---------------------------------------------------------------------------
(* One call of convert, from main *)

Init ==
    /\ pc = "read"
    /\ src \in DOMAIN SourceDocs
    /\ dest0 \in {NoFile, OldFile}
    /\ dest = dest0
    /\ hex_data = None
    /\ header = None
    /\ total_chunks = 0
    /\ idx = 0
    /\ buffer = <<>>
    /\ body = None
    /\ coe_content = None
    /\ error = NoError
    /\ calls = <<>>
    /\ written = <<>>
    /\ printed = FALSE

\* a read that is tried a second time when it fails
ReadRetry ==
    /\ pc = "read"
    /\ LET r == ReaderRead(SourceDocs[src])
       IN  /\ hex_data' = r.value
           /\ error' = r.error
           /\ pc' = IF r.error = NoError THEN "generate"
                    ELSE IF Len(calls) = 0 THEN "read" ELSE "failed"
    /\ calls' = Append(calls, "read")
    /\ UNCHANGED <<src, dest, dest0, header, total_chunks, idx, buffer, body,
                   coe_content, written, printed>>

\* convert: hex_data = self.reader.read(src_path)
Read ==
    /\ pc = "read"
    /\ LET r == ReaderRead(SourceDocs[src])
       IN  /\ hex_data' = r.value
           /\ error' = r.error
           /\ pc' = IF r.error = NoError THEN "generate" ELSE "failed"
    /\ calls' = Append(calls, "read")
    /\ UNCHANGED <<src, dest, dest0, header, total_chunks, idx, buffer, body,
                   coe_content, written, printed>>

\* _generate_coe_content: header = self._create_header(src_path)
MakeHeader ==
    /\ pc = "generate"
    /\ \E ts \in Timestamps : header' = CreateHeader(src_name, ts)
    /\ calls' = Append(calls, "generate")
    /\ pc' = "create_body"
    /\ UNCHANGED <<src, dest, dest0, hex_data, total_chunks, idx, buffer, body,
                   coe_content, error, written, printed>>

\* _chunk_generator: buffer = [], total_chunks = len(hex_data) // 32
CreateBodyStart ==
    /\ pc = "create_body"
    /\ buffer' = <<>>
    /\ total_chunks' = TotalChunks(hex_data)
    /\ idx' = 0
    /\ pc' = "chunks"
    /\ UNCHANGED <<src, dest, dest0, hex_data, header, body, coe_content, error,
                   calls, written, printed>>

\* _chunk_generator: one iteration of for idx in range(total_chunks)
ChunkStep ==
    /\ pc = "chunks"
    /\ idx < total_chunks
    /\ buffer' = buffer \o LoopAppends(hex_data, idx, total_chunks)
    /\ idx' = idx + 1
    /\ UNCHANGED <<pc, src, dest, dest0, hex_data, header, total_chunks, body,
                   coe_content, error, calls, written, printed>>

\* _chunk_generator returns buffer; _create_body: ''.join(chunks)
CreateBodyEnd ==
    /\ pc = "chunks"
    /\ idx >= total_chunks
    /\ body' = Join(buffer)
    /\ pc' = "body"
    /\ UNCHANGED <<src, dest, dest0, hex_data, header, total_chunks, idx, buffer,
                   coe_content, error, calls, written, printed>>

\* _generate_coe_content: return header + body
Concat ==
    /\ pc = "body"
    /\ coe_content' = header \o body
    /\ pc' = "write"
    /\ UNCHANGED <<src, dest, dest0, hex_data, header, total_chunks, idx, buffer,
                   body, error, calls, written, printed>>

\* convert: self.writer.write(dst_path, coe_content), up to the file being open
WriteOpen ==
    /\ pc = "write"
    /\ calls' = Append(calls, "write")
    /\ written' = <<coe_content>>
    /\ \/ /\ dest' = Opened(dest)
          /\ pc' = "writing"
          /\ UNCHANGED error
       \/ /\ error' = OpenError
          /\ pc' = "failed"
          /\ UNCHANGED dest
    /\ UNCHANGED <<src, dest0, hex_data, header, total_chunks, idx, buffer, body,
                   coe_content, printed>>

\* write_text: the text is written and the file closed
WriteData ==
    /\ pc = "writing"
    /\ \/ /\ dest' = [exists |-> TRUE, content |-> written[1]]
          /\ pc' = "written"
          /\ UNCHANGED error
       \/ /\ \E n \in PartialLens(written[1]) :
                dest' = [exists |-> TRUE, content |-> Slice(written[1], 0, n)]
          /\ error' = WriteError
          /\ pc' = "failed"
    /\ UNCHANGED <<src, dest0, hex_data, header, total_chunks, idx, buffer, body,
                   coe_content, calls, written, printed>>

\* main: convert returned, print the success message
MainPrint ==
    /\ pc = "written"
    /\ printed' = TRUE
    /\ pc' = "done"
    /\ UNCHANGED <<src, dest, dest0, hex_data, header, total_chunks, idx, buffer,
                   body, coe_content, error, calls, written>>

Next ==
    \/ Read
    \/ MakeHeader
    \/ CreateBodyStart
    \/ ChunkStep
    \/ CreateBodyEnd
    \/ Concat
    \/ WriteOpen
    \/ WriteData
    \/ MainPrint

Spec == Init /\ [][Next]_vars

---------------------------------------------------------------------------
(* _create_body called on its own, on payloads of any length *)

GenPayloads == {Pattern(p, n) : p \in 0..1, n \in 0..MaxGenLen}

GenInit ==
    /\ pc = "create_body"
    /\ src = 0
    /\ dest0 = NoFile
    /\ dest = dest0
    /\ hex_data \in GenPayloads
    /\ header = None
    /\ total_chunks = 0
    /\ idx = 0
    /\ buffer = <<>>
    /\ body = None
    /\ coe_content = None
    /\ error = NoError
    /\ calls = <<>>
    /\ written = <<>>
    /\ printed = FALSE

GenNext ==
    \/ CreateBodyStart
    \/ ChunkStep
    \/ CreateBodyEnd

GenSpec == GenInit /\ [][GenNext]_vars

---------------------------------------------------------------------------
(* Reading a generated text back *)

\* the positions of c in s[lo..hi], in increasing order
RECURSIVE Positions(_, _, _, _)
Positions(s, c, lo, hi) ==
    IF lo > hi THEN <<>>
    ELSE IF lo = hi THEN (IF CharAt(s, lo) = c THEN <<lo>> ELSE <<>>)
    ELSE LET mid == (lo + hi) \div 2
         IN  Positions(s, c, lo, mid) \o Positions(s, c, mid + 1, hi)

\* the pieces of s between the occurrences of c; the piece after the last c
\* counts when it is not empty or keepLast is set
SplitOn(s, c, keepLast) ==
    LET at == Positions(s, c, 1, Len(s))
        n == Len(at)
        from(k) == IF k = 1 THEN 1 ELSE at[k - 1] + 1
        rest == SubSeq(s, from(n + 1), Len(s))
    IN  [k \in 1..n |-> SubSeq(s, from(k), at[k] - 1)]
            \o (IF keepLast \/ Len(rest) > 0 THEN <<rest>> ELSE <<>>)

\* the lines of a text, without their newlines
LinesOf(text) == SplitOn(text, "\n", FALSE)

IsBlankLine(l) == l = ""
IsCommentLine(l) == Len(l) > 0 /\ CharAt(l, 1) = ";"
IsDataLine(l) == ~IsBlankLine(l) /\ ~IsCommentLine(l)

DataLines(lines) == SelectSeq(lines, IsDataLine)

\* the last character of a data line
EndOf(l) == CharAt(l, Len(l))

\* the groups of a data line: what the commas separate, once its end is dropped
GroupsOf(l) == SplitOn(SubSeq(l, 1, Len(l) - 1), ",", TRUE)

\* the groups of every data line, in order, as one string
RECURSIVE AllGroups(_)
AllGroups(dlines) ==
    IF Len(dlines) = 0 THEN ""
    ELSE IF Len(dlines) = 1 THEN Join(GroupsOf(dlines[1]))
    ELSE LET mid == Len(dlines) \div 2
         IN  AllGroups(SubSeq(dlines, 1, mid))
                 \o AllGroups(SubSeq(dlines, mid + 1, Len(dlines)))

\* the positions of the data lines among the lines
DataPositions(lines) ==
    SelectSeq([i \in 1..Len(lines) |-> i], LAMBDA i : IsDataLine(lines[i]))

\* the positions of the comment lines among the lines
CommentPositions(lines) ==
    SelectSeq([i \in 1..Len(lines) |-> i], LAMBDA i : IsCommentLine(lines[i]))

\* the number of data lines that follow each comment line, up to the next one
SectionSizes(lines) ==
    LET c == CommentPositions(lines)
    IN  [k \in 1..Len(c) |->
            Cardinality({i \in (c[k] + 1)..
                               (IF k < Len(c) THEN c[k + 1] - 1 ELSE Len(lines)) :
                            IsDataLine(lines[i])})]

\* s with every whitespace character removed
RECURSIVE Squeeze(_, _, _)
Squeeze(s, lo, hi) ==
    IF lo > hi THEN ""
    ELSE IF lo = hi
    THEN (IF CharAt(s, lo) \in Whitespace THEN "" ELSE CharAt(s, lo))
    ELSE LET mid == (lo + hi) \div 2
         IN  Squeeze(s, lo, mid) \o Squeeze(s, mid + 1, hi)

WithoutWhitespace(s) == Squeeze(s, 1, Len(s))

\* exactly 8192 hexadecimal digits
IsHexPayload(s) ==
    /\ Len(s) = 8192
    /\ \A i \in 1..Len(s) : CharAt(s, i) \in HexDigits

\* the body has been generated
BodyMade == body # None

---------------------------------------------------------------------------
(* The generator on valid payloads *)

\* C1: for a valid payload, the groups of all data lines of the body,
\* concatenated in output order, are the payload, and the groups of data line
\* i are the characters [32*i, 32*i+32) of it.
C1_RoundTrip ==
    (BodyMade /\ IsHexPayload(hex_data)) =>
        LET d == DataLines(LinesOf(body))
        IN  /\ AllGroups(d) = hex_data
            /\ Len(d) * 32 = Len(hex_data)
            /\ \A i \in 0..(Len(d) - 1) :
                   Join(GroupsOf(d[i + 1])) = SubSeq(hex_data, 32 * i + 1, 32 * i + 32)

\* a body made from a payload of mixed digits
C1_Witness ==
    /\ BodyMade
    /\ IsHexPayload(hex_data)
    /\ \E i \in 1..64 : CharAt(hex_data, i) # CharAt(hex_data, i + 32)
    /\ AllGroups(DataLines(LinesOf(body))) = hex_data

\* C2: for a valid payload the body has exactly 256 data lines, in exactly 16
\* address-sections of exactly 16 data lines each, and every data line is 4
\* groups of 8 characters separated by commas.
C2_Shape ==
    (BodyMade /\ IsHexPayload(hex_data)) =>
        LET lines == LinesOf(body)
            d == DataLines(lines)
            sizes == SectionSizes(lines)
        IN  /\ Len(d) = 256
            /\ Len(sizes) = 16
            /\ \A k \in 1..Len(sizes) : sizes[k] = 16
            /\ \A i \in 1..Len(d) :
                   /\ Len(GroupsOf(d[i])) = 4
                   /\ \A g \in 1..Len(GroupsOf(d[i])) : Len(GroupsOf(d[i])[g]) = 8
                   /\ Len(d[i]) = 36

C2_Witness ==
    /\ pc = "write"
    /\ IsHexPayload(hex_data)
    /\ Len(DataLines(LinesOf(body))) = 256

\* C3: for a valid payload exactly one data line of the body ends with ';',
\* it is the last data line, and every other data line ends with ','.
C3_Terminators ==
    (BodyMade /\ IsHexPayload(hex_data)) =>
        LET lines == LinesOf(body)
            d == DataLines(lines)
        IN  /\ Len(d) >= 1
            /\ EndOf(d[Len(d)]) = ";"
            /\ \A i \in 1..(Len(d) - 1) : EndOf(d[i]) = ","
            /\ Cardinality({i \in 1..Len(lines) :
                               Len(lines[i]) > 0 /\ EndOf(lines[i]) = ";"}) = 1

C3_Witness ==
    /\ BodyMade
    /\ IsHexPayload(hex_data)
    /\ EndOf(DataLines(LinesOf(body))[256]) = ";"
    /\ EndOf(DataLines(LinesOf(body))[255]) = ","

\* the addresses k * 256 of the sections k = 0..15, as 4 uppercase hex digits
SectionAddresses ==
    << "0000", "0100", "0200", "0300", "0400", "0500", "0600", "0700",
       "0800", "0900", "0A00", "0B00", "0C00", "0D00", "0E00", "0F00" >>

\* C4: a blank line followed by the comment "; " and the address k * 256 in 4
\* uppercase hex digits comes immediately before data line 16 * k, for every
\* k in 0..15, and no blank or comment line comes anywhere else.
C4_AddressComments ==
    (BodyMade /\ IsHexPayload(hex_data)) =>
        LET lines == LinesOf(body)
            at == DataPositions(lines)
        IN  /\ Len(at) = 256
            /\ \A j \in 0..(Len(at) - 1) :
                   IF j % 16 = 0
                   THEN /\ at[j + 1] >= 3
                        /\ lines[at[j + 1] - 1] = "; " \o SectionAddresses[(j \div 16) + 1]
                        /\ lines[at[j + 1] - 2] = ""
                        /\ (j > 0 => at[j + 1] - 3 = at[j])
                   ELSE at[j + 1] - 1 = at[j]
            /\ Len(lines) = 256 + 2 * 16
            /\ at[1] = 3
            /\ at[Len(at)] = Len(lines)

C4_Witness ==
    /\ BodyMade
    /\ IsHexPayload(hex_data)
    /\ Len(CommentPositions(LinesOf(body))) = 16
    /\ LinesOf(body)[CommentPositions(LinesOf(body))[11]] = "; 0A00"

---------------------------------------------------------------------------
(* The reader *)

\* read has just returned or raised
ReadEnded == calls = <<"read">> /\ pc \in {"generate", "failed"}

\* the source document has a <bytes> element with text
HasText == SourceDocs[src].kind = "xml" /\ SourceDocs[src].bytes_element
               /\ SourceDocs[src].text # None

LengthMismatch(n) ==
    "Invalid hex length: Expected 8192 characters, got " \o ToString(n)

InvalidCharacter == "Hex data contains invalid characters"

\* C5: whitespace anywhere in the text of the payload element is removed
\* before the checks: a text whose non-whitespace characters are exactly 8192
\* hex digits is accepted, and the payload returned is the text without any
\* of its whitespace.
C5_AllWhitespaceRemoved ==
    (ReadEnded /\ HasText /\ IsHexPayload(WithoutWhitespace(SourceDocs[src].text))) =>
        /\ error = NoError
        /\ hex_data = WithoutWhitespace(SourceDocs[src].text)

\* C7: on the payload as the reader stripped it, a length other than 8192 is
\* a length-mismatch error carrying that length, whatever the characters are;
\* at length 8192 a character that is no hex digit is an invalid-character
\* error; a failure returns no payload, and what read returns is exactly 8192
\* hex digits.
C7_ChecksInOrder ==
    (ReadEnded /\ HasText) =>
        LET s == Strip(SourceDocs[src].text)
        IN  /\ (Len(s) # 8192) =>
                   /\ error.type = "ValueError"
                   /\ error.msg = LengthMismatch(Len(s))
            /\ (Len(s) = 8192 /\ ~IsHexPayload(s)) =>
                   /\ error.type = "ValueError"
                   /\ error.msg = InvalidCharacter
            /\ (error # NoError) => (hex_data = None /\ pc = "failed")
            /\ (error = NoError) => (hex_data = s /\ IsHexPayload(hex_data))

\* a payload of the wrong length that also holds a character that is no hex
\* digit was reported as a length mismatch
C7_Witness ==
    /\ ReadEnded
    /\ HasText
    /\ Len(Strip(SourceDocs[src].text)) = 8191
    /\ \E i \in 1..200 : CharAt(Strip(SourceDocs[src].text), i) = "g"
    /\ error.msg = LengthMismatch(8191)

\* C8 as claimed: a payload element that is absent, has no text, or has text of
\* whitespace only, is a missing-payload error.
C8_WhitespaceOnlyIsMissing ==
    (ReadEnded /\ SourceDocs[src].kind = "xml"
        /\ (~HasText \/ WithoutWhitespace(SourceDocs[src].text) = "")) =>
        error = MissingBytes

\* C8, amended: a payload element that is absent or has no text is a
\* missing-payload error and no payload is returned; text of whitespace only
\* passes that check and is a length-mismatch error carrying the length 0.
C8_MissingPayload ==
    (ReadEnded /\ SourceDocs[src].kind = "xml") =>
        /\ ~HasText => (error = MissingBytes /\ hex_data = None /\ pc = "failed")
        /\ (HasText /\ WithoutWhitespace(SourceDocs[src].text) = "") =>
               /\ error.type = "ValueError"
               /\ error.msg = LengthMismatch(0)
               /\ hex_data = None
               /\ pc = "failed"

\* the element is there, without text, and read raised the missing-payload error
C8_Witness ==
    /\ ReadEnded
    /\ SourceDocs[src].kind = "xml"
    /\ SourceDocs[src].bytes_element
    /\ SourceDocs[src].text = None
    /\ error = MissingBytes

---------------------------------------------------------------------------
(* The generator on payloads of any length *)

\* C6: a payload whose length is no multiple of 32 is rejected with an error
\* and no body is made; the groups of a body that is made account for every
\* character of the payload.
C6_RejectsPartialChunk ==
    (pc = "body") =>
        /\ (Len(hex_data) % 32 # 0) => (error # NoError /\ body = None)
        /\ (body # None) => AllGroups(DataLines(LinesOf(body))) = hex_data

---------------------------------------------------------------------------
(* convert *)

IsPrefix(a, b) == Len(a) <= Len(b) /\ SubSeq(b, 1, Len(a)) = a

LastCall == IF Len(calls) = 0 THEN None ELSE calls[Len(calls)]

\* C9: the stages run in the order read, generate, write, each at most once;
\* after a failed read nothing else has run and the destination is as it was;
\* a failure is the failing stage's own error; the writer is given the header
\* and body made from the payload that read returned.
C9_Sequencing ==
    /\ IsPrefix(calls, <<"read", "generate", "write">>)
    /\ (pc = "done") => (calls = <<"read", "generate", "write">> /\ error = NoError)
    /\ (pc = "failed" /\ LastCall = "read") =>
           /\ error = ReaderRead(SourceDocs[src]).error
           /\ error # NoError
           /\ written = <<>>
           /\ dest = dest0
    /\ (pc = "failed" /\ LastCall = "write") => error \in {OpenError, WriteError}
    /\ (pc = "failed") => (LastCall \in {"read", "write"} /\ ~printed)
    /\ (written # <<>>) =>
           /\ ReaderRead(SourceDocs[src]).error = NoError
           /\ hex_data = ReaderRead(SourceDocs[src]).value
           /\ body = Join(buffer)
           /\ written = <<header \o body>>

\* a read failed over an existing destination
C9_Witness ==
    /\ pc = "failed"
    /\ calls = <<"read">>
    /\ error # NoError
    /\ dest0 = OldFile
    /\ dest = OldFile

\* C10: after a failed write the destination does not exist or holds what it
\* held before, and the error is an OSError that names the destination.
C10_NoPartialOutput ==
    (pc = "failed" /\ LastCall = "write") =>
        /\ (~dest.exists \/ dest = dest0)
        /\ error.type = "OSError"
        /\ error.filename = dst_path

=============================================================================
